---- MODULE Spec2Model ----
(***************************************************************************)
(* A model of the uio container reader (src/uio.py): Fortran-style         *)
(* length-bracketed records, continued text records, the descriptor        *)
(* parser, the three tree-builder loops, name lookup, lazy data access     *)
(* and close.                                                              *)
(*                                                                         *)
(* The byte stream is a sequence of byte values (ASCII codes for text);    *)
(* stream offsets are 0-based as in Python, sequence indexes are 1-based.  *)
(* Every byte the model writes is below 128, so a 4-byte big-endian word   *)
(* stays below 2^31.                                                       *)
(***************************************************************************)
EXTENDS Integers, Sequences, FiniteSets, TLC

VARIABLES
    stream,     \* the bytes of the file
    fpos,       \* position of the shared file object (f.tell())
    closed,     \* File._fd.closed
    pc,         \* where the program is: see PcValues
    err,        \* the exception that ended File.__init__ or the last call
    ctxList,    \* the list the innermost running loop appends to
    dsList,     \* _read_dataset_entries' list while a box loop runs inside it
    fileList,   \* _read_file_entries' list while a dataset loop runs inside it
    ctxParams,  \* params of the label that opened the dataset being read
    boxParams,  \* params of the label that opened the box being read
    boxPos,     \* f.tell() taken when the box was opened (line 210)
    entries,    \* File._entries once built
    dataset,    \* File.dataset once built
    header,     \* File.header once read
    last,       \* the last call made and what it returned or raised
    first,      \* ghost: the first data access made on the open Container
    doc,        \* ghost: the tokens the stream was written from
    cut,        \* ghost: how many bytes were cut off the end of the stream
    recs,       \* ghost: the records a record-level stream was written from
    nread,      \* ghost: how many physical records the last descriptor or
                \* text read took
    touched,    \* ghost: the offsets of the bytes f.read has returned since
                \* File.__init__ rewound the file
    dims,       \* ghost: the d parameter a descriptor-level stream was written with
    thr         \* the threads that access data, and the caller's lock

vars == <<stream, fpos, closed, pc, err, ctxList, dsList, fileList, ctxParams,
          boxParams, boxPos, entries, dataset, header, last, first, doc, cut,
          recs, nread, touched, dims, thr>>

(***************************************************************************)
(* Bytes and text                                                          *)
(***************************************************************************)
Min(a, b) == IF a < b THEN a ELSE b

\* bytes.rstrip() strips ASCII whitespace: \t \n \v \f \r and space
IsSpace(b) == b \in {9, 10, 11, 12, 13, 32}

\* \w of the regular expressions, on ASCII text: [A-Za-z0-9_]
IsWord(b) == \/ b \in 48..57
             \/ b \in 65..90
             \/ b \in 97..122
             \/ b = 95

IsDigit(b) == b \in 48..57

RECURSIVE RStrip(_)
RStrip(s) == IF s # <<>> /\ IsSpace(s[Len(s)])
             THEN RStrip(SubSeq(s, 1, Len(s) - 1))
             ELSE s

\* s.endswith(b'&')
EndsWithAmp(s) == s # <<>> /\ s[Len(s)] = 38

\* membership of byte b in a character class of the regular expressions
InClass(cls, b) == CASE cls = "word" -> IsWord(b)
                     [] cls = "digit" -> IsDigit(b)
                     [] cls = "nonspace" -> ~IsSpace(b)
                     [] cls = "notquote" -> b # 39
                     [] OTHER -> FALSE

\* length of the longest run of bytes of class cls that starts at index i
RECURSIVE RunLen(_, _, _)
RunLen(s, i, cls) == IF i <= Len(s) /\ InClass(cls, s[i])
                     THEN 1 + RunLen(s, i + 1, cls)
                     ELSE 0

(***************************************************************************)
(* The file object                                                         *)
(***************************************************************************)
\* f.read(n) at offset pos: the bytes that are there, at most n
FRead(s, pos, n) == IF pos >= Len(s) THEN <<>>
                    ELSE SubSeq(s, pos + 1, Min(pos + n, Len(s)))

\* faulty variant: the seek is made only while the stream still is where the single
\* pass left it, at the end of the file; afterwards reads go on from the
\* current position
FSeekOnlyFromEnd(cur, offset) == IF cur = Len(stream) THEN offset ELSE cur

\* f.seek(offset) with the file at cur: the position it sets (whence = 0)
FSeek(cur, offset) == offset

\* Struct('>I').unpack
UintFromBytes(w) == ((w[1] * 256 + w[2]) * 256 + w[3]) * 256 + w[4]

(***************************************************************************)
(* Record I/O.  Each call returns [err, pos, ...]: the exception raised    *)
(* ("none" when it returns), and the file position it leaves.              *)
(***************************************************************************)
ReadBlockSize(s, pos) ==
    LET data == FRead(s, pos, 4) IN
    IF Len(data) # 4
    THEN [err |-> "EOFError", pos |-> pos + Len(data), val |-> 0]
    ELSE [err |-> "none", pos |-> pos + 4, val |-> UintFromBytes(data)]

\* faulty variant: the trailing length word is never read
ReadBlockNoTrailer(s, pos) ==
    LET h == ReadBlockSize(s, pos) IN
    IF h.err # "none" THEN [err |-> h.err, pos |-> h.pos, data |-> <<>>]
    ELSE [err |-> "none", pos |-> h.pos + Len(FRead(s, h.pos, h.val)),
          data |-> FRead(s, h.pos, h.val)]

ReadBlock(s, pos) ==
    LET h == ReadBlockSize(s, pos) IN
    IF h.err # "none" THEN [err |-> h.err, pos |-> h.pos, data |-> <<>>]
    ELSE LET data == FRead(s, h.pos, h.val)
             t == ReadBlockSize(s, h.pos + Len(data)) IN
         IF t.err # "none" THEN [err |-> t.err, pos |-> t.pos, data |-> <<>>]
         ELSE IF h.val # t.val
              THEN [err |-> "IOError_block", pos |-> t.pos, data |-> <<>>]
              ELSE [err |-> "none", pos |-> t.pos, data |-> data]

\* faulty variant: the trailing length word is read and not compared
SkipBlockUnchecked(s, pos) ==
    LET h == ReadBlockSize(s, pos) IN
    IF h.err # "none" THEN [err |-> h.err, pos |-> h.pos, rd |-> pos..(h.pos - 1)]
    ELSE LET t == ReadBlockSize(s, h.pos + h.val) IN
         [err |-> t.err, pos |-> t.pos,
          rd |-> pos..(h.pos - 1) \cup (h.pos + h.val)..(t.pos - 1)]

\* faulty variant: the payload is read, not seeked over
SkipBlockReading(s, pos) ==
    LET r == ReadBlock(s, pos) IN
    [err |-> IF r.err = "IOError_block" THEN "IOError_skip" ELSE r.err,
     pos |-> r.pos, rd |-> pos..(r.pos - 1)]

\* rd: the offsets of the bytes the two f.read(4) returned
SkipBlock(s, pos) ==
    LET h == ReadBlockSize(s, pos) IN
    IF h.err # "none" THEN [err |-> h.err, pos |-> h.pos, rd |-> pos..(h.pos - 1)]
    ELSE LET t == ReadBlockSize(s, h.pos + h.val)
             rd == pos..(h.pos - 1) \cup (h.pos + h.val)..(t.pos - 1) IN
         IF t.err # "none" THEN [err |-> t.err, pos |-> t.pos, rd |-> rd]
         ELSE IF h.val # t.val
              THEN [err |-> "IOError_skip", pos |-> t.pos, rd |-> rd]
              ELSE [err |-> "none", pos |-> t.pos, rd |-> rd]

(***************************************************************************)
(* String assembler: the while loop of _read_string, on the accumulated s. *)
(* n counts the physical records read.                                     *)
(***************************************************************************)
RECURSIVE ReadStringLoop(_, _, _, _)
ReadStringLoop(s, acc, pos, n) ==
    IF EndsWithAmp(RStrip(acc))
    THEN LET r == ReadBlock(s, pos) IN
         IF r.err # "none"
         THEN [err |-> r.err, pos |-> r.pos, data |-> <<>>, n |-> n]
         ELSE ReadStringLoop(s, SubSeq(RStrip(acc), 1, Len(RStrip(acc)) - 1) \o r.data,
                             r.pos, n + 1)
    ELSE [err |-> "none", pos |-> pos, data |-> RStrip(acc), n |-> n]

ReadString(s, pos) ==
    LET r == ReadBlock(s, pos) IN
    IF r.err # "none" THEN [err |-> r.err, pos |-> r.pos, data |-> <<>>, n |-> 0]
    ELSE ReadStringLoop(s, r.data, r.pos, 1)

(***************************************************************************)
(* Words of the format, as the bytes of their ASCII text                   *)
(***************************************************************************)
S_fileform == <<102,105,108,101,102,111,114,109>>
S_uio == <<117,105,111>>
S_magic == <<102,105,108,101,102,111,114,109,32,117,105,111>>   \* 'fileform uio'
S_table == <<116,97,98,108,101>>
S_label == <<108,97,98,101,108>>
S_dataset == <<100,97,116,97,115,101,116>>
S_enddataset == <<101,110,100,100,97,116,97,115,101,116>>
S_box == <<98,111,120>>
S_endbox == <<101,110,100,98,111,120>>
S_real == <<114,101,97,108>>
S_integer == <<105,110,116,101,103,101,114>>
S_character == <<99,104,97,114,97,99,116,101,114>>
S_complex == <<99,111,109,112,108,101,120>>
S_b == <<98>>
S_d == <<100>>

(***************************************************************************)
(* Descriptor parser                                                       *)
(***************************************************************************)
\* _re_params at index i of s: the index of the match's last byte, 0 when the
\* pattern does not match there.  \w+ = then '[^']*' or, failing that, \S+
MatchParamEnd(s, i) ==
    LET w == RunLen(s, i, "word") IN
    IF w = 0 \/ i + w > Len(s) \/ s[i + w] # 61 THEN 0
    ELSE LET j == i + w + 1
             q == RunLen(s, j + 1, "notquote")
             ns == RunLen(s, j, "nonspace") IN
         IF j <= Len(s) /\ s[j] = 39 /\ j + 1 + q <= Len(s) THEN j + 1 + q
         ELSE IF ns >= 1 THEN j + ns - 1
         ELSE 0

\* _re_params.findall(s), scanning from index i
RECURSIVE FindAllParams(_, _)
FindAllParams(s, i) ==
    IF i > Len(s) THEN <<>>
    ELSE LET e == MatchParamEnd(s, i) IN
         IF e = 0 THEN FindAllParams(s, i + 1)
         ELSE <<SubSeq(s, i, e)>> \o FindAllParams(s, e + 1)

\* it.split('=', 1) and the removal of the quotes
ParamKey(it) == SubSeq(it, 1, RunLen(it, 1, "word"))

ParamValue(it) ==
    LET v == SubSeq(it, RunLen(it, 1, "word") + 2, Len(it)) IN
    IF v # <<>> /\ v[1] = 39 /\ v[Len(v)] = 39 THEN SubSeq(v, 2, Len(v) - 1) ELSE v

\* the dict filled by the for loop: a later item replaces an earlier one
RECURSIVE ParamsOf(_, _)
ParamsOf(items, n) ==
    IF n = 0 THEN [k \in {} |-> <<>>]
    ELSE (ParamKey(items[n]) :> ParamValue(items[n])) @@ ParamsOf(items, n - 1)

\* _re_desc.match: ^(\w+) (\w+) ?(.*)$ ; ok = FALSE stands for the None returned
ParseDescriptor(text) ==
    LET w1 == RunLen(text, 1, "word")
        w2 == RunLen(text, w1 + 2, "word")
        after == w1 + w2 + 2
        start == IF after <= Len(text) /\ text[after] = 32 THEN after + 1 ELSE after
        rest == SubSeq(text, start, Len(text))
        nl == {i \in 1..Len(rest) : rest[i] = 10}
        pstr == IF nl = {} THEN rest ELSE SubSeq(rest, 1, Len(rest) - 1)
        items == FindAllParams(pstr, 1)
        none == [ok |-> FALSE, etype |-> <<>>, name |-> <<>>,
                 params |-> [k \in {} |-> <<>>]] IN
    IF w1 = 0 \/ w1 + 1 > Len(text) \/ text[w1 + 1] # 32 \/ w2 = 0 THEN none
    ELSE IF nl # {} /\ nl # {Len(rest)} THEN none
    ELSE [ok |-> TRUE, etype |-> SubSeq(text, 1, w1),
          name |-> SubSeq(text, w1 + 2, w1 + 1 + w2),
          params |-> ParamsOf(items, Len(items))]

\* int() of a run of decimal digits
RECURSIVE DecInt(_)
DecInt(v) == IF v = <<>> THEN 0
             ELSE DecInt(SubSeq(v, 1, Len(v) - 1)) * 10 + (v[Len(v)] - 48)

\* int(params['b']) raises ValueError unless the text is a number; the model
\* writes unsigned digit runs only and takes everything else as no number
IsInt(v) == v # <<>> /\ \A i \in 1..Len(v) : IsDigit(v[i])

\* _re_dims.findall over params['d'] and the extents hi-lo+1, in textual order
RECURSIVE FShape(_, _)
FShape(s, i) ==
    IF i > Len(s) THEN <<>>
    ELSE LET a == RunLen(s, i, "digit")
             b == RunLen(s, i + a + 1, "digit") IN
         IF a = 0 \/ i + a > Len(s) \/ s[i + a] # 58 \/ b = 0
         THEN FShape(s, i + 1)
         ELSE <<DecInt(SubSeq(s, i + a + 1, i + a + b)) - DecInt(SubSeq(s, i, i + a - 1)) + 1>>
              \o FShape(s, i + a + b + 1)

Reversed(q) == [i \in 1..Len(q) |-> q[Len(q) + 1 - i]]

NoDtype == [code |-> "None", n |-> 0]
NoShape == [none |-> TRUE, dims |-> <<>>]

\* lines 171-181: the dtype string built from the kind and b
DtypeOf(etype, params) ==
    IF S_b \notin DOMAIN params THEN NoDtype
    ELSE LET nbytes == DecInt(params[S_b]) IN
         CASE etype = S_real -> [code |-> "f", n |-> nbytes]
           [] etype = S_integer -> [code |-> "i", n |-> nbytes]
           [] etype = S_character -> [code |-> "S", n |-> nbytes]
           [] etype = S_complex -> [code |-> "c", n |-> nbytes]
           [] OTHER -> NoDtype

\* lines 182-188
ShapeOf(params) ==
    IF S_d \notin DOMAIN params THEN NoShape
    ELSE [none |-> FALSE, dims |-> Reversed(FShape(params[S_d], 1))]

NoEntry == [cls |-> "None"]

\* _read_entry raising e after the text read r
EntryFail(e, r) == [err |-> e, pos |-> r.pos, n |-> r.n, entry |-> NoEntry]

\* lines 170-190 on the parsed descriptor d of the text read r
BuildEntry(r, d) ==
    IF S_b \in DOMAIN d.params /\ ~IsInt(d.params[S_b]) THEN EntryFail("ValueError", r)
    ELSE [err |-> "none", pos |-> r.pos, n |-> r.n,
          entry |-> [cls |-> "Entry", pos |-> r.pos, type |-> d.etype,
                     name |-> d.name, params |-> d.params,
                     dtype |-> DtypeOf(d.etype, d.params),
                     shape |-> ShapeOf(d.params)]]

\* faulty variant: a table descriptor is taken as an ordinary entry
EntryFromTableAccepted(r, d) ==
    IF ~d.ok THEN EntryFail("TypeError", r) ELSE BuildEntry(r, d)

\* lines 167-169: unpacking None raises TypeError, a table IOError
EntryFrom(r, d) ==
    IF ~d.ok THEN EntryFail("TypeError", r)
    ELSE IF d.etype = S_table THEN EntryFail("IOError_table", r)
    ELSE BuildEntry(r, d)

\* line 167 on the text read r
EntryOfText(r) ==
    IF r.err # "none" THEN EntryFail(r.err, r)
    ELSE EntryFrom(r, ParseDescriptor(r.data))

\* faulty variant: the descriptor is read and the file put back where it was
ReadEntryInPlace(s, p) == [EntryOfText(ReadString(s, p)) EXCEPT !.pos = p]

\* faulty variant: the entry's position is taken before its descriptor is read
ReadEntryPosBefore(s, p) ==
    IF EntryOfText(ReadString(s, p)).err # "none" THEN EntryOfText(ReadString(s, p))
    ELSE [EntryOfText(ReadString(s, p)) EXCEPT !.entry.pos = p]

\* _read_entry: [err, pos, n, entry]; pos is the file position it leaves and n
\* the number of physical records its descriptor took
ReadEntry(s, p) == EntryOfText(ReadString(s, p))

(***************************************************************************)
(* Typed arrays and Entry.data                                             *)
(***************************************************************************)
\* np.dtype(dtype): None is float64; the widths numpy knows for each code
DtypeValid(dt) == CASE dt.code = "None" -> TRUE
                    [] dt.code = "f" -> dt.n \in {2, 4, 8, 16}
                    [] dt.code = "i" -> dt.n \in {1, 2, 4, 8}
                    [] dt.code = "c" -> dt.n \in {8, 16, 32}
                    [] OTHER -> TRUE

ItemSize(dt) == IF dt.code = "None" THEN 8 ELSE dt.n

\* the unsigned big-endian value of the bytes w
RECURSIVE BigEndian(_)
BigEndian(w) == IF w = <<>> THEN 0
                ELSE BigEndian(SubSeq(w, 1, Len(w) - 1)) * 256 + w[Len(w)]

\* one element of the array in host order: an integer is its two's complement
\* value, any other element the bytes of its big-endian representation
Element(dt, w) ==
    IF dt.code = "i"
    THEN [int |-> IF w[1] >= 128 THEN BigEndian(w) - 2 ^ (8 * Len(w)) ELSE BigEndian(w),
          raw |-> <<>>]
    ELSE [int |-> 0, raw |-> w]

\* _read_array: [err, pos, data]
ReadArray(s, p, dt) ==
    LET h == ReadBlockSize(s, p)
        size == ItemSize(dt)
        count == h.val \div size
        got == FRead(s, h.pos, count * size)
        items == Len(got) \div size
        t == ReadBlockSize(s, h.pos + Len(got)) IN
    IF ~DtypeValid(dt) THEN [err |-> "TypeError", pos |-> p, data |-> <<>>]
    ELSE IF h.err # "none" THEN [err |-> h.err, pos |-> h.pos, data |-> <<>>]
    ELSE IF size = 0 THEN [err |-> "ZeroDivisionError", pos |-> h.pos, data |-> <<>>]
    ELSE IF t.err # "none" THEN [err |-> t.err, pos |-> t.pos, data |-> <<>>]
    ELSE IF h.val # t.val THEN [err |-> "IOError_array", pos |-> t.pos, data |-> <<>>]
    ELSE [err |-> "none", pos |-> t.pos,
          data |-> [i \in 1..items |->
                       Element(dt, SubSeq(got, (i - 1) * size + 1, i * size))]]

RECURSIVE Product(_)
Product(q) == IF q = <<>> THEN 1 ELSE q[1] * Product(Tail(q))

\* an element of a fixed-width character array, read out and .rstrip()ped:
\* numpy drops the trailing NUL bytes, rstrip the trailing whitespace
RECURSIVE StripNul(_)
StripNul(w) == IF w # <<>> /\ w[Len(w)] = 0 THEN StripNul(SubSeq(w, 1, Len(w) - 1)) ELSE w

CharStrip(el) == [int |-> 0, raw |-> RStrip(StripNul(el.raw))]

NoValue == [kind |-> "none", dims |-> <<>>, items |-> <<>>]

\* Entry.data after the seek: [err, pos, val]
EntryData(s, e) ==
    LET a == ReadArray(s, e.pos, e.dtype)
        fail(x) == [err |-> x, pos |-> a.pos, val |-> NoValue]
        reshaped == IF Product(e.shape.dims) # Len(a.data) THEN fail("ValueError")
                    ELSE [err |-> "none", pos |-> a.pos,
                          val |-> [kind |-> "array", dims |-> e.shape.dims,
                                   items |-> a.data]] IN
    IF a.err # "none" THEN fail(a.err)
    ELSE IF e.type # S_character
    THEN IF ~e.shape.none THEN reshaped
         ELSE IF a.data = <<>> THEN fail("IndexError")
         ELSE [err |-> "none", pos |-> a.pos,
               val |-> [kind |-> "scalar", dims |-> <<>>, items |-> <<a.data[1]>>]]
    ELSE IF e.shape.none
    THEN IF a.data = <<>> THEN fail("IndexError")
         ELSE [err |-> "none", pos |-> a.pos,
               val |-> [kind |-> "scalar", dims |-> <<>>,
                        items |-> <<CharStrip(a.data[1])>>]]
    ELSE IF Len(e.shape.dims) = 1
    THEN [err |-> "none", pos |-> a.pos,
          val |-> [kind |-> "list", dims |-> <<>>,
                   items |-> [i \in 1..Len(a.data) |-> CharStrip(a.data[i])]]]
    ELSE reshaped

(***************************************************************************)
(* _EntryMapping.__getitem__: the first entry of the list with that name   *)
(***************************************************************************)
\* faulty variant: the last entry with that name is returned
GetItemLast(list, key) ==
    LET hits == {i \in 1..Len(list) : list[i].name = key} IN
    IF hits = {} THEN [err |-> "KeyError", val |-> NoEntry]
    ELSE [err |-> "none", val |-> list[CHOOSE i \in hits : \A j \in hits : i >= j]]

GetItem(list, key) ==
    LET hits == {i \in 1..Len(list) : list[i].name = key} IN
    IF hits = {} THEN [err |-> "KeyError", val |-> NoEntry]
    ELSE [err |-> "none", val |-> list[CHOOSE i \in hits : \A j \in hits : i <= j]]

\* the isinstance partitions of lines 229-232 and 255-258
OfClass(list, c) == SelectSeq(list, LAMBDA x : x.cls = c)

(***************************************************************************)
(* The files the model reads.  A file is written from a sequence of        *)
(* tokens: a header, then descriptors with the record that follows each.   *)
(***************************************************************************)
MaxTok == 6     \* tokens of the well-formed part of a file read by File.__init__
MaxUseTok == 5  \* the same, of a file whose Container is then used
MaxRecs == 3    \* records of a record-level stream

\* struct.pack('>I', n)
ToBytes(n) == <<(n \div 16777216) % 256, (n \div 65536) % 256, (n \div 256) % 256, n % 256>>

\* a record as a writer brackets it, and one whose trailing word is off by one
Rec(t) == ToBytes(Len(t)) \o t \o ToBytes(Len(t))
BadRec(t) == ToBytes(Len(t)) \o t \o ToBytes(Len(t) + 1)

D_x == <<114,101,97,108,32,120,32,98,61,52,32,100,61,49,58,50>>  \* 'real x b=4 d=1:2'
D_y1 == <<105,110,116,101,103,101,114,32,121,32,38>>             \* 'integer y &'
D_y2 == <<98,61,50>>                                             \* 'b=2'
D_foo == <<108,97,98,101,108,32,102,111,111>>                    \* 'label foo'
D_t == <<116,97,98,108,101,32,116>>                              \* 'table t'
D_badmagic == <<102,105,108,101,102,111,114,109,32,117,105,120>> \* 'fileform uix'
D_badname == <<102,105,108,101,102,111,114,109,32,117,105,111,120>> \* 'fileform uiox'

\* the text records of a token's descriptor
DescRecs(tok) ==
    CASE tok = "H" -> <<S_magic>>
      [] tok = "Hx" -> <<D_badmagic>>
      [] tok = "Hox" -> <<D_badname>>
      [] tok \in {"X", "Bad", "N"} -> <<D_x>>
      [] tok = "Y" -> <<D_y1, D_y2>>
      [] tok = "Yc" -> <<D_y1>>
      [] tok \in {"L", "M"} -> <<D_foo>>
      [] tok = "T" -> <<D_t>>
      [] tok = "DS" -> <<S_label \o <<32>> \o S_dataset>>
      [] tok = "ENDDS" -> <<S_label \o <<32>> \o S_enddataset>>
      [] tok = "BOX" -> <<S_label \o <<32>> \o S_box>>
      [] tok = "ENDBOX" -> <<S_label \o <<32>> \o S_endbox>>

HasPayload(tok) == tok \in {"X", "Y", "L", "Bad"}

\* the payload written after the i-th token's descriptor: it names the token
Payload(tok, i) ==
    CASE tok \in {"X", "Bad"} -> <<i, 1, 1, 1, i, 2, 2, 2>>
      [] tok = "Y" -> <<1, i>>
      [] tok = "L" -> <<i>>
      [] OTHER -> <<>>

RECURSIVE EncRecs(_)
EncRecs(texts) == IF texts = <<>> THEN <<>> ELSE Rec(texts[1]) \o EncRecs(Tail(texts))

EncDesc(tok) == EncRecs(DescRecs(tok))

EncTok(tok, i) ==
    EncDesc(tok) \o (IF tok = "Bad" THEN BadRec(Payload(tok, i))
                     ELSE IF HasPayload(tok) THEN Rec(Payload(tok, i))
                     ELSE <<>>)

\* the bytes of the first n tokens of d
RECURSIVE Encode(_, _)
Encode(d, n) == IF n = 0 THEN <<>> ELSE Encode(d, n - 1) \o EncTok(d[n], n)

\* the tokens that continue a well-formed file in each context; v says which
\* of the two data entries the file level and the boxes hold
GoodToks(ctx, v) ==
    CASE ctx = "file" -> {IF v = 1 THEN "X" ELSE "Y", "DS"}
      [] ctx = "dataset" -> {IF v = 1 THEN "Y" ELSE "X", "BOX", "ENDDS"}
      [] ctx = "box" -> {IF v = 1 THEN "X" ELSE "Y", "ENDBOX"}

NextCtx(ctx, tok) ==
    CASE tok = "DS" -> "dataset"
      [] tok = "ENDDS" -> "file"
      [] tok = "BOX" -> "box"
      [] tok = "ENDBOX" -> "dataset"
      [] OTHER -> ctx

RECURSIVE Prefixes(_, _, _)
Prefixes(ctx, v, n) ==
    {<<>>} \cup
    (IF n = 0 THEN {}
     ELSE UNION {{<<t>> \o r : r \in Prefixes(NextCtx(ctx, t), v, n - 1)} :
                 t \in GoodToks(ctx, v)})

\* what may end a file after its well-formed part: nothing, or tokens the
\* reader stops at or treats specially.  N is the descriptor of X with no
\* record after it, M that of L with no record of its own after it, Yc the
\* first record of Y's descriptor with the announced continuation missing.
Tails == {<<>>, <<"T">>, <<"Bad">>, <<"N">>, <<"L">>, <<"L", "X">>, <<"X">>, <<"Y">>,
          <<"M", "X">>, <<"Yc">>}
UseTails == {<<>>, <<"L">>, <<"X">>, <<"Y">>}

\* length of the last physical record of the file written from d
LastRecLen(d) ==
    LET tok == d[Len(d)] IN
    IF HasPayload(tok) THEN Len(Payload(tok, Len(d)))
    ELSE Len(DescRecs(tok)[Len(DescRecs(tok))])

\* the truncations of a file: inside the last record's trailing word, without
\* it, inside its payload, and inside its leading word
CutsOf(d) == {2, 4, 5, LastRecLen(d) + 6}

Truncate(s, c) == SubSeq(s, 1, Len(s) - c)

AllDocs == {<<"H">> \o p \o t : p \in Prefixes("file", 1, MaxTok) \cup Prefixes("file", 2, MaxTok),
                                t \in Tails}
           \cup {<<"Hx">>, <<"Hox">>}

UseDocs == {<<"H">> \o p \o t : p \in Prefixes("file", 1, MaxUseTok)
                                        \cup Prefixes("file", 2, MaxUseTok),
                                t \in UseTails}

\* the texts of the record-level streams
Texts == {<<>>, <<97>>, <<97, 38>>, <<38, 38>>, <<32>>, <<97, 38, 32>>}

RECURSIVE RecSeqs(_)
RecSeqs(n) == IF n = 0 THEN {<<>>}
              ELSE RecSeqs(n - 1) \cup
                   {Append(q, t) : q \in {r \in RecSeqs(n - 1) : Len(r) = n - 1}, t \in Texts}

\* the stream written from the texts q, the bad-th record (if any) with a
\* trailing word that differs from its leading word
RECURSIVE EncStream(_, _, _)
EncStream(q, n, bad) ==
    IF n = 0 THEN <<>>
    ELSE EncStream(q, n - 1, bad) \o (IF n = bad THEN BadRec(q[n]) ELSE Rec(q[n]))

\* offset of the i-th record of the stream written from q (i = Len(q)+1: its end)
RECURSIVE RecStart(_, _)
RecStart(q, i) == IF i = 1 THEN 0 ELSE RecStart(q, i - 1) + Len(q[i - 1]) + 8

(***************************************************************************)
(* State                                                                   *)
(***************************************************************************)
NoParams == [k \in {} |-> <<>>]

\* last: no call made yet
NoCall == [op |-> "none", at |-> <<>>, key |-> <<>>, err |-> "none",
           ent |-> NoEntry, val |-> NoValue, pos0 |-> 0]

NoFirst == [set |-> FALSE, at |-> <<>>, err |-> "none", val |-> NoValue]

\* thr: no thread is started, no lock is used
NoThreads == [serial |-> FALSE, lock |-> 0, th |-> <<>>]

InitState ==
    /\ fpos = 0
    /\ closed = FALSE
    /\ err = "none"
    /\ ctxList = <<>>
    /\ dsList = <<>>
    /\ fileList = <<>>
    /\ ctxParams = NoParams
    /\ boxParams = NoParams
    /\ boxPos = 0
    /\ entries = <<>>
    /\ dataset = <<>>
    /\ header = NoParams
    /\ last = NoCall
    /\ first = NoFirst
    /\ nread = 0
    /\ touched = {}

PlainDocs == {<<"H">> \o p : p \in Prefixes("file", 1, MaxTok) \cup Prefixes("file", 2, MaxTok)}

\* the files that are also read truncated: the well-formed ones, and those
\* whose last record is a descriptor record
CutDocs == PlainDocs \cup {d \in AllDocs : d[Len(d)] = "N"}

\* a file of AllDocs, whole or truncated
Init ==
    /\ \E d \in AllDocs :
         \E c \in {0} \cup (IF d \in CutDocs THEN CutsOf(d) ELSE {}) :
            /\ doc = d
            /\ cut = c
            /\ stream = Truncate(Encode(d, Len(d)), c)
    /\ recs = <<>>
    /\ dims = <<>>
    /\ thr = NoThreads
    /\ pc = "init"
    /\ InitState

\* a whole file of UseDocs
InitUse ==
    /\ \E d \in UseDocs :
            /\ doc = d
            /\ cut = 0
            /\ stream = Encode(d, Len(d))
    /\ recs = <<>>
    /\ dims = <<>>
    /\ thr = NoThreads
    /\ pc = "init"
    /\ InitState

\* a stream of at most MaxRecs records, at most one of them with a trailing
\* word that differs from its leading word
InitRec ==
    /\ \E q \in RecSeqs(MaxRecs) :
         \E bad \in 0..Len(q) :
            /\ recs = [i \in 1..Len(q) |-> [text |-> q[i], ok |-> i # bad]]
            /\ stream = EncStream(q, Len(q), bad)
    /\ doc = <<>>
    /\ cut = 0
    /\ dims = <<>>
    /\ thr = NoThreads
    /\ pc = "rec"
    /\ InitState

(***************************************************************************)
(* File.__init__, one action per loop iteration                            *)
(***************************************************************************)
builderVars == <<ctxList, dsList, fileList, ctxParams, boxParams, boxPos,
                 entries, dataset, header>>
ghostVars == <<doc, cut, recs, stream, dims, thr>>

\* an exception leaves File.__init__ with the file at p, the bytes at rd read
\* in this step: no Container is returned
FailAt(e, p, n, rd) ==
    /\ pc' = "failed"
    /\ err' = e
    /\ fpos' = p
    /\ nread' = n
    /\ touched' = touched \cup rd
    /\ UNCHANGED <<builderVars, ghostVars, closed, last, first>>

\* the same, raised by a read that began at fpos and went on to p
Fail(e, p, n) == FailAt(e, p, n, fpos..(p - 1))

\* lines 244-250: the magic, the rewind to offset 0, the header
Open ==
    /\ pc = "init"
    /\ LET mag == SubSeq(FRead(stream, 0, 16), 5, Len(FRead(stream, 0, 16)))
           r == ReadString(stream, 0)
           d == ParseDescriptor(r.data) IN
       IF mag # S_magic THEN Fail("IOError_magic", Len(FRead(stream, 0, 16)), 0)
       ELSE IF r.err # "none" THEN Fail(r.err, r.pos, r.n)
       ELSE IF ~d.ok THEN Fail("TypeError", r.pos, r.n)
       ELSE IF d.etype # S_fileform \/ d.name # S_uio THEN Fail("IOError_format", r.pos, r.n)
       ELSE /\ pc' = "file"
            /\ header' = d.params
            /\ fpos' = r.pos
            /\ nread' = r.n
            /\ touched' = 0..(r.pos - 1)
            /\ UNCHANGED <<ctxList, dsList, fileList, ctxParams, boxParams, boxPos,
                           entries, dataset, ghostVars, closed, err, last, first>>

\* append the entry and skip the record after it (lines 198-199, 214-215, 237-238)
Skipped(e, sk) ==
    IF sk.err # "none" THEN FailAt(sk.err, sk.pos, e.n, fpos..(e.pos - 1) \cup sk.rd)
    ELSE /\ ctxList' = Append(ctxList, e.entry)
         /\ fpos' = sk.pos
         /\ nread' = e.n
         /\ touched' = touched \cup fpos..(e.pos - 1) \cup sk.rd
         /\ UNCHANGED <<pc, dsList, fileList, ctxParams, boxParams, boxPos, entries,
                        dataset, header, ghostVars, closed, err, last, first>>

AppendAndSkip(e) == Skipped(e, SkipBlock(stream, e.pos))

\* one iteration of _read_file_entries; at EOFError the loop ends and
\* lines 252-259 build the Container
FileDone(e) ==
    /\ pc' = "ready"
    /\ entries' = OfClass(ctxList, "Entry")
    /\ dataset' = OfClass(ctxList, "DataSet")
    /\ fpos' = e.pos
    /\ nread' = e.n
    /\ touched' = touched \cup fpos..(e.pos - 1)
    /\ UNCHANGED <<ctxList, dsList, fileList, ctxParams, boxParams, boxPos,
                   header, ghostVars, closed, err, last, first>>

\* lines 225-238, and any exception but EOFError leaving the loop
FileEntry(e) ==
       IF e.err # "none" THEN Fail(e.err, e.pos, e.n)
       ELSE IF e.entry.type = S_label /\ e.entry.name = S_dataset
       THEN /\ pc' = "dataset"
            /\ fileList' = ctxList
            /\ ctxList' = <<>>
            /\ ctxParams' = e.entry.params
            /\ fpos' = e.pos
            /\ nread' = e.n
            /\ touched' = touched \cup fpos..(e.pos - 1)
            /\ UNCHANGED <<dsList, boxParams, boxPos, entries, dataset, header,
                           ghostVars, closed, err, last, first>>
       ELSE AppendAndSkip(e)

\* faulty variant: EOFError is not caught at file level
FileIterationEOFFatal(e) == FileEntry(e)

FileIteration(e) == IF e.err = "EOFError" THEN FileDone(e) ELSE FileEntry(e)

FileStep == pc = "file" /\ FileIteration(ReadEntry(stream, fpos))

\* one iteration of _read_dataset_entries; at enddataset lines 229-235 build
\* the DataSet, whose pos is the f.tell() of line 233
DatasetIteration(e) ==
       IF e.err # "none" THEN Fail(e.err, e.pos, e.n)
       ELSE IF e.entry.type = S_label
       THEN IF e.entry.name = S_enddataset
            THEN /\ pc' = "file"
                 /\ ctxList' = Append(fileList,
                                      [cls |-> "DataSet", pos |-> e.pos,
                                       params |-> ctxParams,
                                       entries |-> OfClass(ctxList, "Entry"),
                                       box |-> OfClass(ctxList, "Box")])
                 /\ fileList' = <<>>
                 /\ fpos' = e.pos
                 /\ nread' = e.n
                 /\ touched' = touched \cup fpos..(e.pos - 1)
                 /\ UNCHANGED <<dsList, ctxParams, boxParams, boxPos, entries, dataset,
                                header, ghostVars, closed, err, last, first>>
            ELSE IF e.entry.name = S_box
            THEN /\ pc' = "box"
                 /\ dsList' = ctxList
                 /\ ctxList' = <<>>
                 /\ boxPos' = e.pos
                 /\ boxParams' = e.entry.params
                 /\ fpos' = e.pos
                 /\ nread' = e.n
                 /\ touched' = touched \cup fpos..(e.pos - 1)
                 /\ UNCHANGED <<fileList, ctxParams, entries, dataset, header,
                                ghostVars, closed, err, last, first>>
            ELSE /\ fpos' = e.pos
                 /\ nread' = e.n
 /\ touched' = touched \cup fpos..(e.pos - 1)
                 /\ UNCHANGED <<pc, builderVars, ghostVars, closed, err, last, first>>
       ELSE AppendAndSkip(e)

DatasetStep == pc = "dataset" /\ DatasetIteration(ReadEntry(stream, fpos))

\* faulty variant: at endbox the box's entries are also left in the dataset's list
BoxIterationFlat(e) ==
       IF e.err # "none" THEN Fail(e.err, e.pos, e.n)
       ELSE IF e.entry.type = S_label /\ e.entry.name = S_endbox
       THEN /\ pc' = "dataset"
            /\ ctxList' = Append(dsList \o ctxList,
                                 [cls |-> "Box", pos |-> boxPos,
                                  params |-> boxParams, entries |-> ctxList])
            /\ dsList' = <<>>
            /\ fpos' = e.pos
            /\ nread' = e.n
            /\ touched' = touched \cup fpos..(e.pos - 1)
            /\ UNCHANGED <<fileList, ctxParams, boxParams, boxPos, entries, dataset,
                           header, ghostVars, closed, err, last, first>>
       ELSE AppendAndSkip(e)

\* faulty variant: the Box's position is taken after its endbox descriptor, as a
\* DataSet's is after enddataset
BoxIterationPosAtEnd(e) ==
       IF e.err # "none" THEN Fail(e.err, e.pos, e.n)
       ELSE IF e.entry.type = S_label /\ e.entry.name = S_endbox
       THEN /\ pc' = "dataset"
            /\ ctxList' = Append(dsList, [cls |-> "Box", pos |-> e.pos,
                                          params |-> boxParams, entries |-> ctxList])
            /\ dsList' = <<>>
            /\ fpos' = e.pos
            /\ nread' = e.n
            /\ touched' = touched \cup fpos..(e.pos - 1)
            /\ UNCHANGED <<fileList, ctxParams, boxParams, boxPos, entries, dataset,
                           header, ghostVars, closed, err, last, first>>
       ELSE AppendAndSkip(e)

\* one iteration of _read_box_entries; at endbox line 210 builds the Box
BoxIteration(e) ==
       IF e.err # "none" THEN Fail(e.err, e.pos, e.n)
       ELSE IF e.entry.type = S_label /\ e.entry.name = S_endbox
       THEN /\ pc' = "dataset"
            /\ ctxList' = Append(dsList, [cls |-> "Box", pos |-> boxPos,
                                          params |-> boxParams, entries |-> ctxList])
            /\ dsList' = <<>>
            /\ fpos' = e.pos
            /\ nread' = e.n
            /\ touched' = touched \cup fpos..(e.pos - 1)
            /\ UNCHANGED <<fileList, ctxParams, boxParams, boxPos, entries, dataset,
                           header, ghostVars, closed, err, last, first>>
       ELSE AppendAndSkip(e)

BoxStep == pc = "box" /\ BoxIteration(ReadEntry(stream, fpos))

(***************************************************************************)
(* The Container in use: lookups, data accesses, close                     *)
(***************************************************************************)
\* a mapping is named by its path: <<>> the File, <<i>> its i-th DataSet,
\* <<i, j>> the j-th Box of that DataSet; an Entry by the path of its mapping
\* and its index there
MappingPaths ==
    {<<>>} \cup {<<i>> : i \in 1..Len(dataset)}
    \cup UNION {{<<i, j>> : j \in 1..Len(dataset[i].box)} : i \in 1..Len(dataset)}

\* _EntryMapping._entries of the mapping at path m
EntriesOf(m) ==
    CASE Len(m) = 0 -> entries
      [] Len(m) = 1 -> dataset[m[1]].entries
      [] Len(m) = 2 -> dataset[m[1]].box[m[2]].entries

EntryPaths == UNION {{Append(m, k) : k \in 1..Len(EntriesOf(m))} : m \in MappingPaths}

EntryAt(p) == EntriesOf(SubSeq(p, 1, Len(p) - 1))[p[Len(p)]]

Keys == {<<120>>, <<121>>}      \* 'x', 'y'

useFrame == <<pc, err, builderVars, ghostVars, nread, touched>>

\* mapping[key] on the File, a DataSet or a Box (lines 70-74)
Lookup(m, key) ==
    /\ pc = "ready"
    /\ LET r == GetItem(EntriesOf(m), key) IN
       last' = [op |-> "lookup", at |-> m, key |-> key, err |-> r.err,
                ent |-> r.val, val |-> NoValue, pos0 |-> fpos]
    /\ UNCHANGED <<useFrame, fpos, closed, first>>

\* entry.data on a closed file: the seek of line 120 raises ValueError and
\* nothing is read
DataClosed(p) ==
    /\ last' = [op |-> "data", at |-> p, key |-> <<>>, err |-> "ValueError_closed",
                ent |-> NoEntry, val |-> NoValue, pos0 |-> fpos]
    /\ UNCHANGED <<fpos, first>>

\* entry.data on an open file (lines 120-130), r what it returns
DataReturned(p, r) ==
    /\ last' = [op |-> "data", at |-> p, key |-> <<>>, err |-> r.err,
                ent |-> NoEntry, val |-> r.val, pos0 |-> fpos]
    /\ fpos' = r.pos
    /\ first' = IF first.set THEN first
                ELSE [set |-> TRUE, at |-> p, err |-> r.err, val |-> r.val]

DataRead(p) ==
    DataReturned(p, EntryData(stream, [EntryAt(p) EXCEPT !.pos = FSeek(fpos, EntryAt(p).pos)]))

\* faulty variant: a closed file is read like an open one
DataIgnoresClose(p) ==
    /\ pc = "ready"
    /\ DataRead(p)
    /\ UNCHANGED <<useFrame, closed>>

\* entry.data (lines 118-130)
Data(p) ==
    /\ pc = "ready"
    /\ IF closed THEN DataClosed(p) ELSE DataRead(p)
    /\ UNCHANGED <<useFrame, closed>>

\* File.close (lines 261-262)
Close ==
    /\ pc = "ready"
    /\ closed' = TRUE
    /\ last' = [NoCall EXCEPT !.op = "close", !.pos0 = fpos]
    /\ UNCHANGED <<useFrame, fpos, first>>

(***************************************************************************)
(* Record-level calls on a stream                                          *)
(***************************************************************************)
Bytes(data) == [kind |-> "bytes", dims |-> <<>>, items |-> data]

recFrame == <<pc, err, builderVars, ghostVars, closed, first, touched>>

CallReadBlock ==
    /\ pc = "rec"
    /\ LET r == ReadBlock(stream, fpos) IN
       /\ last' = [op |-> "read_block", at |-> <<>>, key |-> <<>>, err |-> r.err,
                   ent |-> NoEntry, val |-> Bytes(r.data), pos0 |-> fpos]
       /\ fpos' = r.pos
    /\ UNCHANGED <<recFrame, nread>>

CallSkipBlock ==
    /\ pc = "rec"
    /\ LET r == SkipBlock(stream, fpos) IN
       /\ last' = [op |-> "skip_block", at |-> <<>>, key |-> <<>>, err |-> r.err,
                   ent |-> NoEntry, val |-> NoValue, pos0 |-> fpos]
       /\ fpos' = r.pos
    /\ UNCHANGED <<recFrame, nread>>

CallReadString ==
    /\ pc = "rec"
    /\ LET r == ReadString(stream, fpos) IN
       /\ last' = [op |-> "read_string", at |-> <<>>, key |-> <<>>, err |-> r.err,
                   ent |-> NoEntry, val |-> Bytes(r.data), pos0 |-> fpos]
       /\ fpos' = r.pos
       /\ nread' = r.n
    /\ UNCHANGED recFrame

(***************************************************************************)
(* Specifications                                                          *)
(***************************************************************************)
Build == Open \/ FileStep \/ DatasetStep \/ BoxStep

Use == \/ \E m \in MappingPaths : \E key \in Keys : Lookup(m, key)
       \/ \E p \in EntryPaths : Data(p)
       \/ Close

Next == Build

NextUse == Build \/ Use

NextRec == CallReadBlock \/ CallSkipBlock \/ CallReadString

\* File.__init__ on whole, damaged and truncated files
Spec == Init /\ [][Next]_vars

\* File.__init__ on whole files, then the Container in use
SpecUse == InitUse /\ [][NextUse]_vars

\* the record-level calls on streams of records
SpecRec == InitRec /\ [][NextRec]_vars

(***************************************************************************)
(* Record I/O and string assembler properties, under SpecRec               *)
(***************************************************************************)
\* offset of the i-th record written (i = Len(recs) + 1: the end of the stream)
RecOffset(i) == RecStart([j \in 1..Len(recs) |-> recs[j].text], i)

\* C1: a read_record that starts at a record whose leading and trailing
\* length words are equal returns exactly the payload bytes written between
\* them and leaves the stream immediately after the trailing length word,
\* wherever in the stream the record lies and whatever follows it.
C1_ReadRecordRoundTrip ==
    \A i \in 1..Len(recs) :
        (last.op = "read_block" /\ last.pos0 = RecOffset(i) /\ recs[i].ok)
        => /\ last.err = "none"
           /\ last.val.items = recs[i].text
           /\ fpos = RecOffset(i + 1)

\* a non-empty record that is neither the first nor the last has been read
C1_Witness ==
    /\ Len(recs) >= 3
    /\ recs[2].ok
    /\ recs[2].text # <<>>
    /\ last.op = "read_block"
    /\ last.pos0 = RecOffset(2)
    /\ last.err = "none"

\* C2: read_record and skip_record on a record whose trailing length word
\* differs from its leading length word both fail with the record-length
\* mismatch error, and read_record returns no payload data.
C2_MismatchDetected ==
    \A i \in 1..Len(recs) :
        (last.pos0 = RecOffset(i) /\ ~recs[i].ok)
        => /\ last.op = "read_block" => (last.err = "IOError_block" /\ last.val.items = <<>>)
           /\ last.op = "skip_block" => last.err = "IOError_skip"

\* a record with payload and a wrong trailing word has been read
C2_Witness ==
    \E i \in 1..Len(recs) :
        /\ ~recs[i].ok
        /\ recs[i].text # <<>>
        /\ last.op = "read_block"
        /\ last.pos0 = RecOffset(i)
        /\ last.err = "IOError_block"

\* a text whose right-stripped content ends with the continuation marker
Marked(t) == EndsWithAmp(RStrip(t))

\* a text without its trailing whitespace and, if marked, without its marker
Unmarked(t) == IF Marked(t) THEN SubSeq(RStrip(t), 1, Len(RStrip(t)) - 1) ELSE t

\* the texts of records i..j joined, each marker removed
RECURSIVE Joined(_, _)
Joined(i, j) == IF i > j THEN <<>> ELSE Unmarked(recs[i].text) \o Joined(i + 1, j)

\* C10: read_text_record on k consecutive records of which all but the last
\* end with the continuation marker returns the texts joined in order, each
\* marker removed and trailing whitespace stripped, and leaves the stream
\* immediately after the k-th record.
C10_ContinuationReassembly ==
    \A i \in 1..Len(recs) : \A j \in i..Len(recs) :
        (/\ last.op = "read_string"
         /\ last.pos0 = RecOffset(i)
         /\ \A m \in i..j : recs[m].ok
         /\ \A m \in i..(j - 1) : Marked(recs[m].text)
         /\ ~Marked(recs[j].text))
        => /\ last.err = "none"
           /\ last.val.items = RStrip(Joined(i, j))
           /\ fpos = RecOffset(j + 1)

(***************************************************************************)
(* What the tokens of doc say the reader should find                       *)
(***************************************************************************)
\* offset of the i-th token (i = Len(doc) + 1: the end of the whole file)
TokStart(i) == Len(Encode(doc, i - 1))

\* offset immediately after the last physical record of the i-th descriptor
DescEnd(i) == TokStart(i) + Len(EncDesc(doc[i]))

\* the context in which the descriptor of the i-th token is read
RECURSIVE CtxAt(_)
CtxAt(i) == IF i <= 2 THEN "file" ELSE NextCtx(CtxAt(i - 1), doc[i - 1])

TokName(tok) == CASE tok \in {"X", "Bad", "N"} -> <<120>>
                  [] tok \in {"Y", "Yc"} -> <<121>>
                  [] tok \in {"L", "M"} -> <<102, 111, 111>>
                  [] OTHER -> <<>>

\* the elements of a set of numbers in increasing order
RECURSIVE Sorted(_)
Sorted(S) == IF S = {} THEN <<>>
             ELSE LET m == CHOOSE x \in S : \A y \in S : x <= y IN <<m>> \o Sorted(S \ {m})

\* the first token after a that is tok (0: none)
FirstAfter(a, tok) ==
    LET S == {b \in (a + 1)..Len(doc) : doc[b] = tok} IN
    IF S = {} THEN 0 ELSE CHOOSE x \in S : \A y \in S : x <= y

\* the data-entry tokens strictly between a and b, in stream order
DataToks(a, b) == {t \in (a + 1)..(b - 1) : doc[t] \in {"X", "Y"}}

\* name and position of an entry as built, and as written for token t
Sig(e) == <<e.name, e.pos>>
Sigs(list) == [i \in 1..Len(list) |-> Sig(list[i])]
TokSig(t) == <<TokName(doc[t]), DescEnd(t)>>
TokSigs(q) == [i \in 1..Len(q) |-> TokSig(q[i])]

\* the dataset tokens of doc, the boxes of the dataset opened at a and closed
\* at b, and the data entries that lie directly in that dataset's body
DatasetToks == Sorted({a \in 1..Len(doc) : doc[a] = "DS"})
BoxToks(a, b) == Sorted({c \in (a + 1)..(b - 1) : doc[c] = "BOX"})
DirectToks(a, b) ==
    Sorted({t \in DataToks(a, b) :
               \A c \in (a + 1)..(t - 1) : doc[c] = "BOX" => FirstAfter(c, "ENDBOX") < t})

\* the DataSets built so far, whichever loop is running
BuiltDatasets ==
    CASE pc = "ready" -> dataset
      [] pc = "file" -> OfClass(ctxList, "DataSet")
      [] pc \in {"dataset", "box"} -> OfClass(fileList, "DataSet")
      [] OTHER -> <<>>

(***************************************************************************)
(* Tree builder properties, under Spec                                     *)
(***************************************************************************)
Building == pc \in {"file", "dataset", "box"}

\* the last token is a data entry whose descriptor is whole and whose payload
\* record is missing or cut short: the skip after it runs out of bytes
SkipRunsOut ==
    /\ fpos = TokStart(Len(doc))
    /\ \/ doc[Len(doc)] = "N" /\ cut = 0
       \/ doc[Len(doc)] \in {"X", "Y"} /\ cut > 0

\* C3: running out of bytes at the leading length word of the next descriptor
\* ends the file context normally, and open succeeds with what was built so
\* far; in a dataset or box context, or while skipping a payload record, it
\* makes open fail.
C3_EndOfInput ==
    [][/\ (pc = "file" /\ Len(stream) - fpos < 4)
          => /\ pc' = "ready"
             /\ entries' = OfClass(ctxList, "Entry")
             /\ dataset' = OfClass(ctxList, "DataSet")
       /\ (pc \in {"dataset", "box"} /\ Len(stream) - fpos < 4)
          => (pc' = "failed" /\ err' = "EOFError")
       /\ (Building /\ SkipRunsOut)
          => (pc' = "failed" /\ err' = "EOFError")]_vars

\* open has succeeded on a file cut inside a leading length word, with an
\* entry and a dataset built before the cut
C3_Witness ==
    /\ pc = "ready"
    /\ cut = LastRecLen(doc) + 6
    /\ entries # <<>>
    /\ dataset # <<>>

\* C4: a DataSet's entry list holds exactly the data entries written directly
\* in its body, in stream order, and its box list exactly the boxes written
\* in its body, in stream order, each with exactly the entries written
\* between its box and endbox descriptors, in stream order.
C4_DatasetStructure ==
    \A k \in 1..Len(BuiltDatasets) :
        LET ds == BuiltDatasets[k]
            a == DatasetToks[k]
            b == FirstAfter(a, "ENDDS")
            boxes == BoxToks(a, b) IN
        /\ b # 0
        /\ Sigs(ds.entries) = TokSigs(DirectToks(a, b))
        /\ Len(ds.box) = Len(boxes)
        /\ \A j \in 1..Len(boxes) :
              Sigs(ds.box[j].entries)
                 = TokSigs(Sorted(DataToks(boxes[j], FirstAfter(boxes[j], "ENDBOX"))))

\* a DataSet with an entry of its own and a box that holds an entry
C4_Witness ==
    /\ pc = "ready"
    /\ \E i \in 1..Len(dataset) :
          /\ dataset[i].entries # <<>>
          /\ dataset[i].box # <<>>
          /\ dataset[i].box[1].entries # <<>>

\* C5: when the tree builder reads a table descriptor, in any context, the
\* step fails with the unsupported-kind error, nothing is appended for the
\* descriptor, and no Container is returned.
C5_TableRejected ==
    [][(/\ Building
        /\ \E i \in 2..Len(doc) : doc[i] = "T" /\ fpos = TokStart(i))
       => /\ pc' = "failed"
          /\ err' = "IOError_table"
          /\ ctxList' = ctxList
          /\ dsList' = dsList
          /\ fileList' = fileList
          /\ entries' = <<>>
          /\ dataset' = <<>>]_vars

\* a table descriptor inside a box has been read
C5_Witness ==
    /\ pc = "failed"
    /\ err = "IOError_table"
    /\ CtxAt(Len(doc)) = "box"

(***************************************************************************)
(* Entry, lookup and close properties, under SpecUse                       *)
(***************************************************************************)
Range(q) == {q[i] : i \in 1..Len(q)}

\* the Entry objects held, directly or in a Box or DataSet, by a list
EntriesIn(list) ==
    UNION {CASE x.cls = "Entry" -> {x}
             [] x.cls = "Box" -> Range(x.entries)
             [] x.cls = "DataSet" ->
                   Range(x.entries) \cup UNION {Range(bx.entries) : bx \in Range(x.box)}
           : x \in Range(list)}

\* every Entry built so far
AllBuilt == EntriesIn(ctxList) \cup EntriesIn(dsList) \cup EntriesIn(fileList)
            \cup EntriesIn(entries) \cup EntriesIn(dataset)

\* the token whose descriptor ends at offset p (0: none)
TokEndingAt(p) ==
    LET S == {t \in 2..Len(doc) : DescEnd(t) = p} IN
    IF S = {} THEN 0 ELSE CHOOSE t \in S : TRUE

\* what the payload written for token t holds: two 4-byte reals for X, one
\* 2-byte integer for Y
WrittenValue(t) ==
    LET w == Payload(doc[t], t) IN
    IF doc[t] = "X"
    THEN [kind |-> "array", dims |-> <<2>>,
          items |-> <<[int |-> 0, raw |-> SubSeq(w, 1, 4)],
                      [int |-> 0, raw |-> SubSeq(w, 5, 8)]>>]
    ELSE [kind |-> "scalar", dims |-> <<>>,
          items |-> <<[int |-> w[1] * 256 + w[2], raw |-> <<>>]>>]

\* C6: the position of every Entry built, in any context, is the offset
\* immediately after the last physical record of its descriptor, also for a
\* descriptor continued over several records; a later data access on an entry
\* followed by its payload record reads exactly that record.
C6_EntryPosition ==
    /\ \A e \in AllBuilt :
          \E t \in 2..Len(doc) : doc[t] \in {"X", "Y", "L"} /\ Sig(e) = TokSig(t)
    /\ (last.op = "data" /\ last.err # "ValueError_closed")
       => LET t == TokEndingAt(EntryAt(last.at).pos) IN
          (t # 0 /\ doc[t] \in {"X", "Y"})
          => /\ last.err = "none"
             /\ last.val = WrittenValue(t)
             /\ fpos = TokStart(t + 1)

\* the data of an entry in a box, whose descriptor was continued over two
\* records, has been read
C6_Witness ==
    /\ last.op = "data"
    /\ last.err = "none"
    /\ Len(last.at) = 3
    /\ EntryAt(last.at).name = <<121>>
    /\ doc[TokEndingAt(EntryAt(last.at).pos)] = "Y"

\* C7: every data access to an Entry of an open Container returns what the
\* first access to that Entry returned, whatever position the accesses in
\* between left the stream at, and no Entry, Box or DataSet of the Container
\* changes.
C7_LazyReRead ==
    /\ [](pc = "ready" /\ last.op = "data" /\ last.err # "ValueError_closed"
            /\ first.set /\ first.at = last.at
          => (last.err = first.err /\ last.val = first.val))
    /\ [][pc = "ready" => (entries' = entries /\ dataset' = dataset)]_vars

\* an entry has been read again after an access to another entry had moved
\* the stream elsewhere
C7_Witness ==
    /\ pc = "ready"
    /\ last.op = "data"
    /\ last.err = "none"
    /\ first.set
    /\ first.at = last.at
    /\ last.pos0 # fpos
    /\ last.pos0 # Len(stream)

C9_FirstMatch ==
    last.op = "lookup"
    => LET list == EntriesOf(last.at)
           hits == {i \in 1..Len(list) : list[i].name = last.key} IN
       /\ last.err \in {"none", "KeyError"}
       /\ hits = {} => (last.err = "KeyError" /\ last.ent = NoEntry)
       /\ hits # {} => /\ last.err = "none"
                       /\ \E i \in hits : /\ last.ent = list[i]
                                          /\ \A j \in hits : i <= j

\* a name held twice by a DataSet has been looked up in it
C9_Witness ==
    /\ last.op = "lookup"
    /\ last.err = "none"
    /\ Len(last.at) = 1
    /\ Cardinality({i \in 1..Len(EntriesOf(last.at)) :
                       EntriesOf(last.at)[i].name = last.key}) >= 2

(***************************************************************************)
(* _read_entry on one descriptor with a d parameter, under SpecDesc        *)
(***************************************************************************)
MaxDims == 2    \* lo:hi pairs of a d parameter

\* str(n) for n >= 0
RECURSIVE DecStr(_)
DecStr(n) == IF n < 10 THEN <<48 + n>> ELSE DecStr(n \div 10) \o <<48 + (n % 10)>>

DimPairs == {<<1, 1>>, <<1, 2>>, <<1, 3>>, <<0, 2>>, <<2, 11>>}

RECURSIVE PairSeqs(_)
PairSeqs(n) == IF n = 0 THEN {<<>>}
               ELSE PairSeqs(n - 1) \cup
                    {Append(q, t) : q \in {r \in PairSeqs(n - 1) : Len(r) = n - 1},
                                    t \in DimPairs}

\* the pairs lo:hi of q, sep between them
RECURSIVE JoinPairs(_, _)
JoinPairs(q, sep) ==
    IF q = <<>> THEN <<>>
    ELSE (IF Len(q) = 1 THEN <<>> ELSE JoinPairs(SubSeq(q, 1, Len(q) - 1), sep) \o <<sep>>)
         \o DecStr(q[Len(q)][1]) \o <<58>> \o DecStr(q[Len(q)][2])

\* the ways a d parameter is written: d=1:3 1:2, d=1:3,1:2 and d='1:3 1:2'
DimStyles == {"space", "comma", "quoted"}

DimText(q, style) ==
    S_d \o <<61>> \o (CASE style = "space" -> JoinPairs(q, 32)
                        [] style = "comma" -> JoinPairs(q, 44)
                        [] style = "quoted" -> <<39>> \o JoinPairs(q, 32) \o <<39>>)

\* 'real x b=4', with the d parameter after it if there is one
DescText(dm) ==
    SubSeq(D_x, 1, 10) \o (IF dm.pairs = <<>> THEN <<>> ELSE <<32>> \o DimText(dm.pairs, dm.style))

\* a stream of one descriptor record
InitDesc ==
    /\ \E q \in PairSeqs(MaxDims) :
         \E st \in (IF q = <<>> THEN {"none"} ELSE DimStyles) :
            /\ dims = [pairs |-> q, style |-> st]
            /\ stream = Rec(DescText([pairs |-> q, style |-> st]))
    /\ doc = <<>>
    /\ cut = 0
    /\ recs = <<>>
    /\ thr = NoThreads
    /\ pc = "desc"
    /\ InitState

CallReadEntry ==
    /\ pc = "desc"
    /\ LET e == ReadEntry(stream, fpos) IN
       /\ last' = [op |-> "read_entry", at |-> <<>>, key |-> <<>>, err |-> e.err,
                   ent |-> e.entry, val |-> NoValue, pos0 |-> fpos]
       /\ fpos' = e.pos
       /\ nread' = e.n
    /\ UNCHANGED recFrame

NextDesc == CallReadEntry

\* _read_entry on descriptors with and without a d parameter
SpecDesc == InitDesc /\ [][NextDesc]_vars

\* the extents hi-lo+1 of the pairs q, last pair first
ReversedExtents(q) == [i \in 1..Len(q) |-> q[Len(q) + 1 - i][2] - q[Len(q) + 1 - i][1] + 1]

\* C11: the Entry built from a descriptor whose parameter text is d= followed
\* by k lo:hi pairs, however they are written (also as in d=1:3 1:2), has a
\* shape of k extents, the i-th being hi-lo+1 of the (k+1-i)-th pair; built
\* from a descriptor without d it has shape none.
C11_DimsReversal ==
    (last.op = "read_entry" /\ last.pos0 = 0)
    => /\ last.err = "none"
       /\ last.ent.shape = IF dims.pairs = <<>> THEN NoShape
                           ELSE [none |-> FALSE, dims |-> ReversedExtents(dims.pairs)]

(***************************************************************************)
(* More tree builder properties, under Spec                                *)
(***************************************************************************)
\* the tokens whose descriptor has no b parameter
NoBToks == {"L", "M", "DS", "ENDDS", "BOX", "ENDBOX"}

\* the reader is at the descriptor of token i, which is whole in the stream
AtWholeDesc(i) == fpos = TokStart(i) /\ DescEnd(i) <= Len(stream)

\* C12: after the tree builder has built an Entry from a descriptor without a
\* b parameter, in any context, it skips no record: the next record it parses
\* as a descriptor is the one immediately after that descriptor.
C12_NoSkipWithoutB ==
    [][\A i \in 2..Len(doc) :
          (Building /\ AtWholeDesc(i) /\ doc[i] \in NoBToks)
          => (pc' # "failed" /\ fpos' = DescEnd(i))]_vars

\* C13: in the dataset context a label whose name is neither enddataset nor
\* box is handled as an ordinary entry, as in the file and box contexts: an
\* Entry for it is appended to the dataset's list and the record after its
\* descriptor is skipped.
C13_LabelInDataset ==
    [][\A i \in 2..Len(doc) :
          (pc = "dataset" /\ AtWholeDesc(i) /\ doc[i] = "L")
          => /\ pc' = "dataset"
             /\ Len(ctxList') = Len(ctxList) + 1
             /\ Sig(ctxList'[Len(ctxList')]) = TokSig(i)
             /\ fpos' = TokStart(i + 1)]_vars

(***************************************************************************)
(* Two threads that access data of one Container, under SpecConc.  An      *)
(* access is two steps on the shared file object, the seek of line 120 and *)
(* the read of line 121; in a serialized run the caller holds one lock     *)
(* around both.                                                            *)
(***************************************************************************)
MaxConcTok == 3     \* tokens of a file whose Container the threads use

Threads == {1, 2}

ConcDocs == {<<"H">> \o p : p \in Prefixes("file", 1, MaxConcTok)
                                  \cup Prefixes("file", 2, MaxConcTok)}

IdleThread == [pc |-> "idle", at |-> <<>>, from |-> 0, err |-> "none", val |-> NoValue]

InitConc ==
    /\ \E d \in ConcDocs :
            /\ doc = d
            /\ cut = 0
            /\ stream = Encode(d, Len(d))
    /\ \E b \in BOOLEAN : thr = [serial |-> b, lock |-> 0, th |-> [t \in Threads |-> IdleThread]]
    /\ recs = <<>>
    /\ dims = <<>>
    /\ pc = "init"
    /\ InitState

concFrame == <<stream, closed, pc, err, builderVars, last, first, doc, cut, recs,
               nread, touched, dims>>

\* faulty variant: the lock excludes nobody
MayEnterAlways(t) == TRUE

\* thread t may start an access: always in a run that is not serialized, when
\* the lock is free in one that is
MayEnter(t) == ~thr.serial \/ thr.lock = 0

\* thread t starts the data access of the entry at p, an entry no other
\* thread accesses
ThreadBegin(t, p) ==
    /\ pc = "ready"
    /\ thr.th[t].pc = "idle"
    /\ \A u \in Threads \ {t} : thr.th[u].at # p
    /\ MayEnter(t)
    /\ thr' = [thr EXCEPT !.th[t].pc = "seek", !.th[t].at = p,
                          !.lock = IF thr.serial THEN t ELSE 0]
    /\ UNCHANGED <<concFrame, fpos>>

\* line 120
ThreadSeek(t) ==
    /\ thr.th[t].pc = "seek"
    /\ fpos' = FSeek(fpos, EntryAt(thr.th[t].at).pos)
    /\ thr' = [thr EXCEPT !.th[t].pc = "read"]
    /\ UNCHANGED concFrame

\* lines 121-130 with the file where it is now, r what they return
ThreadReturned(t, r) ==
    /\ fpos' = r.pos
    /\ thr' = [thr EXCEPT !.th[t].pc = "done", !.th[t].from = fpos,
                          !.th[t].err = r.err, !.th[t].val = r.val, !.lock = 0]
    /\ UNCHANGED concFrame

ThreadRead(t) ==
    /\ thr.th[t].pc = "read"
    /\ ThreadReturned(t, EntryData(stream, [EntryAt(thr.th[t].at) EXCEPT !.pos = fpos]))

NextConc ==
    \/ Build
    \/ \E t \in Threads : \E p \in EntryPaths : ThreadBegin(t, p)
    \/ \E t \in Threads : ThreadSeek(t)
    \/ \E t \in Threads : ThreadRead(t)

\* File.__init__ on whole files, then two threads that access data
SpecConc == InitConc /\ [][NextConc]_vars

\* thread t has finished its access
Done(t) == thr.th /= <<>> /\ thr.th[t].pc = "done"

\* C14: when each access's seek and read run under one exclusive lock, every
\* access, in every interleaving, reads its array from its own entry's
\* position (and returns what that entry holds); without the lock an access
\* can read from another offset (C14_Witness), and does so only when the
\* other thread has moved the file in between.
C14_SerializedAccess ==
    \A t \in Threads :
        Done(t) =>
            /\ thr.serial
               => /\ thr.th[t].from = EntryAt(thr.th[t].at).pos
                  /\ thr.th[t].val = EntryData(stream, EntryAt(thr.th[t].at)).val
                  /\ thr.th[t].err = "none"
            /\ (~thr.serial /\ thr.th[t].from # EntryAt(thr.th[t].at).pos)
               => \E u \in Threads \ {t} : thr.th[u].pc \in {"read", "done"}

\* without serialization, a thread has read its array from an offset that is
\* not its entry's position
C14_Witness ==
    /\ ~thr.serial
    /\ \E t \in Threads :
          /\ Done(t)
          /\ thr.th[t].from # EntryAt(thr.th[t].at).pos

(***************************************************************************)
(* Termination of File.__init__, under SpecLive: one thread runs the       *)
(* loops, so an iteration that can be taken is taken                       *)
(***************************************************************************)
MaxLiveTok == 3     \* tokens of the well-formed part of a file

LiveDocs == {<<"H">> \o p \o t : p \in Prefixes("file", 1, MaxLiveTok)
                                         \cup Prefixes("file", 2, MaxLiveTok),
                                 t \in Tails}
            \cup {<<"Hx">>, <<"Hox">>}

\* a file of LiveDocs, whole or truncated
InitLive ==
    /\ \E d \in LiveDocs :
         \E c \in {0} \cup (IF d \in CutDocs THEN CutsOf(d) ELSE {}) :
            /\ doc = d
            /\ cut = c
            /\ stream = Truncate(Encode(d, Len(d)), c)
    /\ recs = <<>>
    /\ dims = <<>>
    /\ thr = NoThreads
    /\ pc = "init"
    /\ InitState

\* File.__init__ is running: an iteration can be taken, and it changes the
\* file position or the loop
Running == pc \in {"init", "file", "dataset", "box"}

\* weak fairness of Next, WF_vars(Next), with ENABLED <<Next>>_vars written
\* out as Running
Scheduled == []<>(~Running) \/ []<><<Next>>_vars

SpecLive == InitLive /\ [][Next]_vars /\ Scheduled

Returned == pc \in {"ready", "failed"}

\* C15: File.__init__ terminates on every stream, returning a Container or
\* failing: every iteration of the file, dataset and box loops either moves
\* the file forward by at least one whole record (two 4-byte length words)
\* or ends File.__init__ by the end of input or an error.
C15_OpenTerminates ==
    /\ [][Building => (fpos' >= fpos + 8 \/ Returned')]_vars
    /\ <>Returned

\* open has ended with a truncation error on a file cut inside a box, after
\* iterations of all three loops
C15_Witness ==
    /\ pc = "failed"
    /\ err = "EOFError"
    /\ cut > 0
    /\ CtxAt(Len(doc) + 1) = "box"
    /\ fpos > TokStart(Len(doc))

(***************************************************************************)
(* The single forward pass, under Spec                                     *)
(***************************************************************************)
\* the offsets of the record that follows the descriptor of entry e: its
\* leading word, its payload, its trailing word
LeadWord(e) == e.pos..(e.pos + 3)
PayloadLen(e) == UintFromBytes(FRead(stream, e.pos, 4))
PayloadBytes(e) == (e.pos + 4)..(e.pos + 3 + PayloadLen(e))
TrailWord(e) == (e.pos + 4 + PayloadLen(e))..(e.pos + 7 + PayloadLen(e))

\* the positions of the Entry objects of a list grow strictly along the list
Increasing(list) ==
    \A i, j \in 1..Len(list) :
        (i < j /\ list[i].cls = "Entry" /\ list[j].cls = "Entry") => list[i].pos < list[j].pos

\* every list of entries there is: the loops' and the Container's, and those
\* of the DataSets and Boxes in them
EntryLists ==
    LET tops == {ctxList, dsList, fileList, entries, dataset}
        groups == UNION {{x \in Range(l) : x.cls \in {"DataSet", "Box"}} : l \in tops}
        boxes == UNION {IF g.cls = "DataSet" THEN Range(g.box) ELSE {} : g \in groups} IN
    tops \cup {g.entries : g \in groups} \cup {b.entries : b \in boxes}

\* C16: after the rewind File.__init__ never moves the file backwards and
\* reads no byte of any entry's payload: of the record after an entry's
\* descriptor it reads the leading and the trailing length word only; the
\* positions of the entries of each entry list grow strictly in list order.
C16_ForwardPass ==
    /\ [][Building => fpos' >= fpos]_vars
    /\ [](\A e \in AllBuilt :
             /\ PayloadBytes(e) \cap touched = {}
             /\ LeadWord(e) \subseteq touched
             /\ TrailWord(e) \subseteq touched)
    /\ [](\A l \in EntryLists : Increasing(l))

\* a Container with entries at file level and in a box has been built, and
\* bytes of the file were never read
C16_Witness ==
    /\ pc = "ready"
    /\ Len(entries) >= 2
    /\ \E i \in 1..Len(dataset) :
          /\ dataset[i].box # <<>>
          /\ dataset[i].box[1].entries # <<>>
    /\ \E e \in AllBuilt : PayloadBytes(e) # {}
    /\ touched # 0..(Len(stream) - 1)

(***************************************************************************)
(* More string assembler properties, under SpecRec                         *)
(***************************************************************************)
\* C17: read_text_record decides continuation record by record: started at a
\* run of records that end with the marker, it consumes them and the first
\* record after them whose own right-stripped content does not end with the
\* marker, and stops: it consumes one record more than the marked ones, also
\* when a continuation record is empty or whitespace only.
C17_PerRecordDecision ==
    \A i \in 1..Len(recs) : \A j \in i..Len(recs) :
        (/\ last.op = "read_string"
         /\ last.pos0 = RecOffset(i)
         /\ \A m \in i..j : recs[m].ok
         /\ \A m \in i..(j - 1) : Marked(recs[m].text)
         /\ ~Marked(recs[j].text))
        => /\ last.err = "none"
           /\ nread = j - i + 1
           /\ fpos = RecOffset(j + 1)

(***************************************************************************)
(* End of input and group positions, under Spec                            *)
(***************************************************************************)
\* the stream ends inside the descriptor of its last token, which is read at
\* file level: after the leading length word and before the end of the
\* record, or before the continuation record its text announces
EndsInsideTopDescriptor ==
    LET i == Len(doc) IN
    /\ i >= 2
    /\ CtxAt(i) = "file"
    /\ \/ doc[i] = "Yc"
       \/ TokStart(i) + 4 <= Len(stream) /\ Len(stream) < DescEnd(i)

\* C18: at file level the end of the stream is taken as the normal end of
\* input at a record boundary only: on a stream that ends inside a top-level
\* descriptor record (payload shorter than its leading length, trailing
\* length word missing, announced continuation record missing) open fails
\* and returns no Container.
C18_EndOnlyAtBoundary ==
    (Returned /\ EndsInsideTopDescriptor) => pc = "failed"

\* C19: a Box's position is the offset immediately after its box label
\* descriptor, before its first member; a DataSet's position is the offset
\* immediately after its enddataset descriptor, after its last member; and
\* no record is skipped after an endbox or enddataset descriptor: the next
\* descriptor is read immediately after it.
C19_GroupPositions ==
    /\ [](\A k \in 1..Len(BuiltDatasets) :
             LET ds == BuiltDatasets[k]
                 a == DatasetToks[k]
                 b == FirstAfter(a, "ENDDS") IN
             /\ ds.pos = DescEnd(b)
             /\ \A j \in 1..Len(ds.box) :
                   /\ ds.box[j].pos = DescEnd(BoxToks(a, b)[j])
                   /\ ds.box[j].pos = TokStart(BoxToks(a, b)[j] + 1))
    /\ [][\A i \in 2..Len(doc) :
             (Building /\ AtWholeDesc(i) /\ doc[i] \in {"ENDBOX", "ENDDS"})
             => /\ fpos' = DescEnd(i)
                /\ pc' = IF doc[i] = "ENDBOX" THEN "dataset" ELSE "file"]_vars

\* a DataSet with a Box that holds an entry has been built, and an entry
\* written right after its enddataset descriptor has been read at file level
C19_Witness ==
    /\ pc = "ready"
    /\ \E i \in 1..Len(dataset) :
          /\ dataset[i].box # <<>>
          /\ dataset[i].box[1].entries # <<>>
          /\ dataset[i].box[1].pos < dataset[i].box[1].entries[1].pos
          /\ dataset[i].box[1].entries[1].pos < dataset[i].pos
          /\ \E e \in Range(entries) : \E t \in 2..Len(doc) :
                TokStart(t) = dataset[i].pos /\ e.pos = DescEnd(t)

====
